---- MODULE Spec2Model ----
(***************************************************************************)
(* Model of the aircraft snapshot pipeline of bdi_api:                     *)
(*   s4/exercise.py  prepare_data (S3 bucket -> SQLite)                    *)
(*   s1/exercise.py  prepare_data (raw folder -> SQLite) and the three     *)
(*                   query endpoints list_aircraft, get_aircraft_position, *)
(*                   get_aircraft_statistics                               *)
(*   s1 and s4       download_data (hourly files -> raw folder / bucket)   *)
(*   s6/exercise.py  create_aircraft, get_aircraft, delete_aircraft on the *)
(*                   MongoDB collection "positions"                        *)
(* Both prepare_data variants write the same file                          *)
(* <prepared_dir>/day=20231101/aircraft.db, which the s1 queries read.     *)
(*                                                                         *)
(* Specifications:                                                         *)
(*   Spec        prepare_data runs and queries over a given listing        *)
(*   SpecIngest  downloads followed by prepare_data runs                   *)
(*   SpecFaults  prepare_data on malformed input, with a failing store     *)
(*   SpecS6      the document store                                        *)
(*                                                                         *)
(* JSON / Python / SQLite values are tagged records [k, v]:                *)
(*   k = "missing"  key absent from the JSON object                        *)
(*   k = "null"     JSON null / Python None / SQL NULL                     *)
(*   k = "num"      a number, v an integer                                 *)
(*   k = "text"     a string, v the sequence of its character codes        *)
(***************************************************************************)
EXTENDS Integers, Sequences, FiniteSets, TLC

\* ------------------------------------------------------------------------
\* Bounds of the model
\* ------------------------------------------------------------------------
MaxFiles == 2      \* files held by the bucket / raw folder
MaxEntries == 2    \* aircraft entries over all files of the bucket / folder,
                   \* a file without entries counting as one

\* ------------------------------------------------------------------------
\* Values
\* ------------------------------------------------------------------------
Missing == [k |-> "missing", v |-> 0]
Null == [k |-> "null", v |-> 0]
Num(n) == [k |-> "num", v |-> n]
Txt(s) == [k |-> "text", v |-> s]

IsNull(x) == x.k = "null"
IsNum(x) == x.k = "num"
IsText(x) == x.k = "text"

\* character codes of the texts used below
T_ground == <<103, 114, 111, 117, 110, 100>>   \* "ground"
T_na == <<110, 47, 97>>                        \* "n/a"
T_none == <<110, 111, 110, 101>>               \* "none"
T_on == <<111, 110>>                           \* "on"
T_1 == <<49>>                                  \* "1"
T_empty == <<>>                                \* ""
T_a == <<97, 49>>                              \* icao "a1"
T_b == <<98, 50>>                              \* icao "b2"
T_reg1 == <<69, 67>>                           \* registration "EC"
T_reg2 == <<78, 49>>                           \* registration "N1"
T_type1 == <<65, 51>>                          \* type "A3"
T_type2 == <<66, 55>>                          \* type "B7"

\* dict.get(key): a missing key reads as None
Get(ac, f) == IF ac[f].k = "missing" THEN Null ELSE ac[f]

\* Python truthiness of a value read with dict.get (None, 0, "" are falsy)
Truthy(x) ==
    CASE x.k = "null" -> FALSE
      [] x.k = "num" -> x.v # 0
      [] x.k = "text" -> Len(x.v) > 0
      [] OTHER -> FALSE

\* isinstance(x, str)
IsInstanceStr(x) == x.k = "text"


\* ------------------------------------------------------------------------
\* Snapshot files
\* ------------------------------------------------------------------------
\* one raw per-aircraft entry of a snapshot (a JSON object)
Entry(hex, r, t, lat, lon, seen_pos, alt_baro, gs, emergency) ==
    [hex |-> hex, r |-> r, t |-> t, lat |-> lat, lon |-> lon,
     seen_pos |-> seen_pos, alt_baro |-> alt_baro, gs |-> gs,
     emergency |-> emergency]

\* the decoded JSON object of a file: key "now" (Missing when absent) and
\* key "aircraft" (has_aircraft) holding a list of entries, or a value
\* that is no list (not_list: null, a number or a text; Missing for a list)
Snapshot(now, acs) ==
    [now |-> now, has_aircraft |-> TRUE, aircraft |-> acs, not_list |-> Missing]
NoAircraftKey(now) ==
    [now |-> now, has_aircraft |-> FALSE, aircraft |-> <<>>, not_list |-> Missing]
NotAList(now, v) ==
    [now |-> now, has_aircraft |-> TRUE, aircraft |-> <<>>, not_list |-> v]

\* a stored file: hour of its name "{hour:02d}0000Z", its extension, how its
\* bytes are encoded ("gzip", "plain" JSON text, or "garbage") and the JSON
\* value the bytes decode to
File(hour, ext, enc, data) == [hour |-> hour, ext |-> ext, enc |-> enc, data |-> data]

\* ------------------------------------------------------------------------
\* Field normalisation, one entry at a time
\* ------------------------------------------------------------------------
\* the accumulators of prepare_data: the two row lists and the exception
\* raised so far ("" when none)
NoRows == [aircraft_rows |-> <<>>, position_rows |-> <<>>, err |-> ""]

MetaRow(icao, ac) == [icao |-> icao, registration |-> Get(ac, "r"), type |-> Get(ac, "t")]

\* base_time - seen_pos, defined on numbers only
CanSubtract(x, y) == IsNum(x) /\ IsNum(y)
Subtract(x, y) == Num(x.v - y.v)

\* "if not icao: continue" (s4 line 150, s1 line 121): the entry is kept when
\* its identifier is truthy
\* (faulty variant: only a None identifier is skipped)
UsableIcaoNotNone(icao) == ~IsNull(icao)
UsableIcao(icao) == Truthy(icao)

\* "lat is not None and lon is not None" (s4 line 162, s1 line 130)
\* (faulty variant: lon is not looked at)
HasLatLonLatOnly(lat, lon) == ~IsNull(lat)
HasLatLon(lat, lon) == ~IsNull(lat) /\ ~IsNull(lon)

\* s4 line 166
S4Timestamp(base_time, seen_pos) ==
    IF Truthy(base_time) /\ ~IsNull(seen_pos)
    THEN Subtract(base_time, seen_pos)
    ELSE base_time

\* s4 lines 170-172
\* (faulty variant: the text is stored as it came, as s1 does)
S4AltBaroUnchanged(alt_baro) == alt_baro
S4AltBaro(alt_baro) ==
    IF IsInstanceStr(alt_baro)
    THEN (IF alt_baro = Txt(T_ground) THEN Num(0) ELSE Null)
    ELSE alt_baro

\* s4 lines 148-182: the body of "for ac in data.get('aircraft', [])"
S4Entry(acc, ac, base_time) ==
    LET icao == Get(ac, "hex")
        lat == Get(ac, "lat")
        lon == Get(ac, "lon")
        seen_pos == Get(ac, "seen_pos")
        withMeta == [acc EXCEPT !.aircraft_rows = Append(@, MetaRow(icao, ac))]
    IN  IF acc.err # "" THEN acc
        ELSE IF ~UsableIcao(icao) THEN acc
        ELSE IF ~HasLatLon(lat, lon) THEN withMeta
        ELSE IF Truthy(base_time) /\ ~IsNull(seen_pos) /\ ~CanSubtract(base_time, seen_pos)
             THEN [withMeta EXCEPT !.err = "TypeError"]
        ELSE [withMeta EXCEPT !.position_rows = Append(@,
                [icao |-> icao,
                 timestamp |-> S4Timestamp(base_time, seen_pos),
                 lat |-> lat,
                 lon |-> lon,
                 alt_baro |-> S4AltBaro(Get(ac, "alt_baro")),
                 gs |-> Get(ac, "gs"),
                 emergency |-> Get(ac, "emergency")])]

\* s1 lines 119-139: the body of "for ac in data['aircraft']"
S1Entry(acc, ac) ==
    LET icao == Get(ac, "hex")
        withMeta == [acc EXCEPT !.aircraft_rows = Append(@, MetaRow(icao, ac))]
    IN  IF acc.err # "" THEN acc
        ELSE IF ~UsableIcao(icao) THEN acc
        ELSE IF ~HasLatLon(Get(ac, "lat"), Get(ac, "lon")) THEN withMeta
        ELSE [withMeta EXCEPT !.position_rows = Append(@,
                [icao |-> icao,
                 timestamp |-> Get(ac, "seen_pos"),
                 lat |-> Get(ac, "lat"),
                 lon |-> Get(ac, "lon"),
                 alt_baro |-> Get(ac, "alt_baro"),
                 gs |-> Get(ac, "gs"),
                 emergency |-> Get(ac, "emergency")])]

RECURSIVE S4Entries(_, _, _, _)
S4Entries(acc, acs, i, base_time) ==
    IF i > Len(acs) THEN acc
    ELSE S4Entries(S4Entry(acc, acs[i], base_time), acs, i + 1, base_time)

RECURSIVE S1Entries(_, _, _)
S1Entries(acc, acs, i) ==
    IF i > Len(acs) THEN acc
    ELSE S1Entries(S1Entry(acc, acs[i]), acs, i + 1)

\* ------------------------------------------------------------------------
\* The file loops
\* ------------------------------------------------------------------------
\* gzip.open(...)/json.load with the fallback to plain JSON: the decode
\* succeeds for gzip and for plain JSON bytes and raises otherwise
Decodes(f) == f.enc \in {"gzip", "plain"}

\* "for ac in <value>" when the value under "aircraft" is no list: None and
\* numbers are not iterable, a text yields its characters and the first
\* ac.get raises, an empty text yields nothing ("" when nothing is raised)
IterationError(v) ==
    CASE v.k \in {"null", "num"} -> "TypeError"
      [] v.k = "text" /\ Len(v.v) > 0 -> "AttributeError"
      [] OTHER -> ""

\* s4 lines 116-182: one object of the listing
S4File(acc, f) ==
    IF acc.err # "" THEN acc
    ELSE IF f.ext # "json.gz" THEN acc
    ELSE IF ~Decodes(f) THEN [acc EXCEPT !.err = "JSONDecodeError"]
    ELSE IF ~f.data.has_aircraft THEN acc
    ELSE IF IterationError(f.data.not_list) # ""
         THEN [acc EXCEPT !.err = IterationError(f.data.not_list)]
    ELSE S4Entries(acc, f.data.aircraft, 1, Get(f.data, "now"))

\* "not data" for a decoded JSON object: a dict without keys is falsy
DictFalsy(data) == data.now.k = "missing" /\ ~data.has_aircraft

\* s1 lines 102-139: one file of the sorted folder listing
S1File(acc, f) ==
    IF acc.err # "" THEN acc
    ELSE IF f.ext \notin {"json", "json.gz"} THEN acc
    ELSE IF ~Decodes(f) THEN [acc EXCEPT !.err = "JSONDecodeError"]
    ELSE IF DictFalsy(f.data) \/ ~f.data.has_aircraft THEN acc
    ELSE IF IterationError(f.data.not_list) # ""
         THEN [acc EXCEPT !.err = IterationError(f.data.not_list)]
    ELSE S1Entries(acc, f.data.aircraft, 1)

RECURSIVE S4Files(_, _, _)
S4Files(acc, files, i) ==
    IF i > Len(files) THEN acc
    ELSE S4Files(S4File(acc, files[i]), files, i + 1)

RECURSIVE S1Files(_, _, _)
S1Files(acc, files, i) ==
    IF i > Len(files) THEN acc
    ELSE S1Files(S1File(acc, files[i]), files, i + 1)

\* ------------------------------------------------------------------------
\* DataFrames and the SQLite tables
\* ------------------------------------------------------------------------
\* DataFrame.drop_duplicates(subset="icao", keep="last"): a row stays when no
\* later row has its icao; the remaining rows keep their order
\* (faulty variant: keep="first")
DropDuplicatesKeepFirst(rows) ==
    LET keep(i) == \A j \in 1..(i - 1) : rows[j].icao # rows[i].icao
        F[i \in 0..Len(rows)] ==
            IF i = 0 THEN <<>>
            ELSE IF keep(i) THEN Append(F[i - 1], rows[i]) ELSE F[i - 1]
    IN  F[Len(rows)]
DropDuplicatesKeepLast(rows) ==
    LET keep(i) == \A j \in (i + 1)..Len(rows) : rows[j].icao # rows[i].icao
        F[i \in 0..Len(rows)] ==
            IF i = 0 THEN <<>>
            ELSE IF keep(i) THEN Append(F[i - 1], rows[i]) ELSE F[i - 1]
    IN  F[Len(rows)]

\* s4 line 187
S4AircraftFrame(rows) == DropDuplicatesKeepLast(rows)

\* s1 line 142: pd.DataFrame([]) has no column "icao", so drop_duplicates
\* raises KeyError when no aircraft row was collected
S1FrameRaises(rows) == Len(rows) = 0
S1AircraftFrame(rows) == DropDuplicatesKeepLast(rows)

\* decimal text of an integer, as SQLite writes a number into a TEXT column
RECURSIVE Digits(_)
Digits(n) == IF n < 10 THEN <<48 + n>> ELSE Append(Digits(n \div 10), 48 + (n % 10))
IntToText(n) == IF n < 0 THEN <<45>> \o Digits(0 - n) ELSE Digits(n)

\* DataFrame.to_sql declares a column TEXT when it holds a string (pandas
\* infers "string" or "mixed"), and SQLite then stores every number of that
\* column as text; a column of numbers and NULLs keeps its numbers
ColumnIsText(rows, c) == \E i \in 1..Len(rows) : IsText(rows[i][c])
StoreValue(rows, c, x) ==
    IF IsNum(x) /\ ColumnIsText(rows, c) THEN Txt(IntToText(x.v)) ELSE x
ToSql(rows) ==
    [i \in 1..Len(rows) |-> [c \in DOMAIN rows[i] |-> StoreValue(rows, c, rows[i][c])]]

\* ------------------------------------------------------------------------
\* SQLite expression semantics used by the queries
\* ------------------------------------------------------------------------
\* memcmp order of two texts (BINARY collation)
RECURSIVE TextLess(_, _)
TextLess(s, t) ==
    IF Len(t) = 0 THEN FALSE
    ELSE IF Len(s) = 0 THEN TRUE
    ELSE IF Head(s) # Head(t) THEN Head(s) < Head(t)
    ELSE TextLess(Tail(s), Tail(t))

\* storage class order: NULL < numbers < text
ClassRank(x) == CASE x.k = "null" -> 0 [] x.k = "num" -> 1 [] x.k = "text" -> 2 [] OTHER -> 3
SqlLess(x, y) ==
    IF ClassRank(x) # ClassRank(y) THEN ClassRank(x) < ClassRank(y)
    ELSE CASE x.k = "num" -> x.v < y.v
           [] x.k = "text" -> TextLess(x.v, y.v)
           [] OTHER -> FALSE

\* value of the longest numeric prefix of a text (0 when there is none):
\* optional sign, then digits
IsDigit(c) == c >= 48 /\ c <= 57
RECURSIVE DigitsValue(_, _)
DigitsValue(s, acc) ==
    IF Len(s) = 0 \/ ~IsDigit(Head(s)) THEN acc
    ELSE DigitsValue(Tail(s), 10 * acc + (Head(s) - 48))
NumericPrefix(s) ==
    IF Len(s) > 0 /\ Head(s) = 45 THEN 0 - DigitsValue(Tail(s), 0)
    ELSE IF Len(s) > 0 /\ Head(s) = 43 THEN DigitsValue(Tail(s), 0)
    ELSE DigitsValue(s, 0)

\* truth of an expression in "CASE WHEN x THEN": NULL is not true, a number
\* is true when non-zero, a text is converted to a number first
SqlTruth(x) ==
    CASE x.k = "null" -> FALSE
      [] x.k = "num" -> x.v # 0
      [] x.k = "text" -> NumericPrefix(x.v) # 0
      [] OTHER -> FALSE

\* MAX(column) over rows: NULLs are skipped, NULL when nothing is left
RECURSIVE SqlMax(_, _)
SqlMax(vals, best) ==
    IF Len(vals) = 0 THEN best
    ELSE LET x == Head(vals)
         IN  SqlMax(Tail(vals),
                    IF IsNull(x) THEN best
                    ELSE IF IsNull(best) \/ SqlLess(best, x) THEN x ELSE best)

\* ORDER BY key ASC: SQLite sorts on (key, scan sequence), so rows with
\* equal keys stay in table order
RECURSIVE InsertSorted(_, _, _)
InsertSorted(sorted, row, c) ==
    IF Len(sorted) = 0 THEN <<row>>
    ELSE IF SqlLess(row[c], Head(sorted)[c]) THEN <<row>> \o sorted
    ELSE <<Head(sorted)>> \o InsertSorted(Tail(sorted), row, c)
RECURSIVE OrderBy(_, _)
OrderBy(rows, c) ==
    IF Len(rows) = 0 THEN <<>>
    ELSE InsertSorted(OrderBy(SubSeq(rows, 1, Len(rows) - 1), c), rows[Len(rows)], c)

\* LIMIT n OFFSET k: a negative OFFSET counts as 0, a negative LIMIT is no
\* limit
Min(a, b) == IF a < b THEN a ELSE b
\* (faulty variant: the OFFSET is dropped)
LimitOffsetNoOffset(rows, limit, offset) ==
    IF limit < 0 THEN rows ELSE SubSeq(rows, 1, Min(limit, Len(rows)))
LimitOffset(rows, limit, offset) ==
    LET off == IF offset < 0 THEN 0 ELSE offset
        rest == SubSeq(rows, off + 1, Len(rows))
    IN  IF limit < 0 THEN rest ELSE SubSeq(rest, 1, Min(limit, Len(rest)))

\* WHERE icao = ?
WhereIcao(rows, icao) == SelectSeq(rows, LAMBDA r : r.icao = icao)

\* ------------------------------------------------------------------------
\* Inputs: the entries and files the bucket and the raw folder may hold
\* ------------------------------------------------------------------------
\* the two entries of MOCK_AIRCRAFT_DATA (times in whole seconds)
EntryA == Entry(Txt(T_a), Txt(T_reg1), Txt(T_type1), Num(41), Num(2), Num(1), Num(3200), Num(180), Null)
EntryB == Entry(Txt(T_b), Txt(T_reg2), Txt(T_type2), Num(40), Num(3), Num(2), Txt(T_ground), Num(0), Txt(T_none))
\* same aircraft as EntryA: no registration, null type, no offset, null
\* altitude and speed, emergency "on"
EntryA2 == Entry(Txt(T_a), Missing, Null, Num(42), Num(2), Missing, Null, Null, Txt(T_on))
\* same aircraft again: offset 0, unparseable altitude text, emergency "1"
EntryA3 == Entry(Txt(T_a), Txt(T_reg2), Missing, Num(43), Num(2), Num(0), Txt(T_na), Missing, Txt(T_1))
\* no position: lat missing / lon null
EntryNoLat == Entry(Txt(T_b), Txt(T_reg1), Missing, Missing, Num(3), Num(1), Num(100), Num(5), Null)
EntryNoLon == Entry(Txt(T_a), Missing, Txt(T_type2), Num(40), Null, Num(1), Num(100), Num(5), Txt(T_none))
\* no usable identifier: hex missing (read as None, like a null) / empty,
\* position present
EntryNoHex == Entry(Missing, Txt(T_reg1), Txt(T_type1), Num(41), Num(2), Num(1), Num(3200), Num(180), Null)
EntryEmptyHex == Entry(Txt(T_empty), Txt(T_reg1), Txt(T_type1), Num(41), Num(2), Num(1), Num(3200), Num(180), Null)

Entries == {EntryA, EntryB, EntryA2, EntryA3, EntryNoLat, EntryNoLon,
            EntryNoHex, EntryEmptyHex}

\* "now" of a snapshot: absent, 0, or a positive time for the first file of
\* the day, a later time for the files of the later hours
NowValues(hour) == IF hour = 0 THEN {Missing, Num(0), Num(10)} ELSE {Num(10 + hour)}

\* decoded contents of a file holding k >= 1 entries
SnapshotsOf(hour, k) == {Snapshot(now, acs) : now \in NowValues(hour), acs \in [1..k -> Entries]}

\* gzip-compressed snapshots named *.json.gz, and particular files: a plain
\* JSON file named *.json, plain JSON bytes under a *.json.gz name, a
\* snapshot without entries, a JSON object without the key "aircraft", and
\* a file that is no snapshot
FilesOf(hour, k) ==
    IF k = 0 THEN {File(hour, "json.gz", "gzip", Snapshot(Num(10), <<>>)),
                   File(hour, "json.gz", "gzip", NoAircraftKey(Num(10))),
                   File(hour, "txt", "plain", NoAircraftKey(Missing))}
    ELSE {File(hour, "json.gz", "gzip", d) : d \in SnapshotsOf(hour, k)}
         \cup (IF k = 1 THEN {File(hour, "json", "plain", Snapshot(Num(10), <<EntryA>>)),
                              File(hour, "json.gz", "plain", Snapshot(Num(10), <<EntryB>>))}
               ELSE {})

\* listings of at most MaxFiles files in name order holding at most
\* MaxEntries entries together (a file without entries counts as one)
RECURSIVE Listings(_, _, _)
Listings(hour, nfiles, nentries) ==
    {<<>>} \cup
    (IF nfiles = 0 \/ nentries = 0 THEN {}
     ELSE UNION {{<<f>> \o rest : f \in FilesOf(hour, k),
                                 rest \in Listings(hour + 1, nfiles - 1,
                                                   nentries - (IF k = 0 THEN 1 ELSE k))}
                 : k \in 0..nentries})

RawUniverse == Listings(0, MaxFiles, MaxEntries)

\* ------------------------------------------------------------------------
\* State
\* ------------------------------------------------------------------------
VARIABLES
    bucket,         \* objects under raw/day=20231101/ of the S3 bucket, in key order
    raw_dir,        \* the folder raw/day=20231101: [exists, files in name order]
    db,             \* prepared/day=20231101/aircraft.db: [file, has_aircraft, aircraft, has_positions, positions]
    pc,             \* position of the running prepare_data: "idle", "load", "write_aircraft", "write_positions", "done"
    variant,        \* which prepare_data runs or ran last: "s1", "s4" ("" before the first)
    aircraft_rows,  \* accumulator aircraft_rows
    position_rows,  \* accumulator position_rows
    aircraft_df,    \* DataFrame aircraft_df
    positions_df,   \* DataFrame positions_df
    result,         \* outcome of the last finished run: "", "OK" or the exception raised
    resp,           \* response of the query answered by the last step, NoResp otherwise
    files,          \* the listing the running or last prepare_data read
    before,         \* the db as the running or last prepare_data found it (history)
    source,         \* hours of the day the source answers with HTTP 200
    dl,             \* the running or last download_data: [op, hour, count, file_limit, puts, result]
    collection      \* s6: documents of the MongoDB collection "positions", in insertion order

vars == <<bucket, raw_dir, db, pc, variant, aircraft_rows, position_rows,
          aircraft_df, positions_df, result, resp, files, before, source, dl,
          collection>>
\* what the s1/s4 pipeline leaves alone: the download bookkeeping and s6
others == <<source, dl, collection>>

NoResp == [op |-> "none"]
NoFile == [file |-> FALSE, has_aircraft |-> FALSE, aircraft |-> <<>>,
           has_positions |-> FALSE, positions |-> <<>>]
EmptyFile == [NoFile EXCEPT !.file = TRUE]
NoDownload == [op |-> "none", hour |-> 0, count |-> 0, file_limit |-> 0,
               puts |-> <<>>, result |-> ""]

\* nothing has run yet: no db file, no request answered, no download
\* started, an empty collection
Fresh ==
    /\ db = NoFile
    /\ files = <<>>
    /\ before = NoFile
    /\ dl = NoDownload
    /\ collection = <<>>

Init ==
    /\ \/ bucket = <<>> /\ raw_dir = [exists |-> FALSE, files |-> <<>>]
       \/ \E c \in RawUniverse : bucket = c /\ raw_dir = [exists |-> TRUE, files |-> c]
    /\ source = {}
    /\ Fresh
    /\ pc = "idle"
    /\ variant = ""
    /\ aircraft_rows = <<>>
    /\ position_rows = <<>>
    /\ aircraft_df = <<>>
    /\ positions_df = <<>>
    /\ result = ""
    /\ resp = NoResp

\* shutil.rmtree(prepared_dir) followed by os.makedirs (s1 lines 95-97, s4
\* lines 96-98): the db file of an earlier run is gone
\* (faulty variant: the folder is left as it is)
RmtreeSkipped(d) == d
Rmtree(d) == NoFile

\* sqlite3.connect(db_file) (s1 line 152, s4 line 191) creates the file when
\* there is none
Connect(d) == IF d.file THEN d ELSE EmptyFile

\* ------------------------------------------------------------------------
\* prepare_data (s1 and s4), in the steps other requests can observe
\* ------------------------------------------------------------------------
\* s1 lines 91-97 / s4 lines 95-98: the raw folder check of s1, then
\* rmtree and makedirs of the prepared folder
\* (the history variable before is set by the specification that uses it)
PrepareStart(v) ==
    /\ pc \in {"idle", "done"}
    /\ variant' = v
    /\ aircraft_rows' = <<>>
    /\ position_rows' = <<>>
    /\ aircraft_df' = <<>>
    /\ positions_df' = <<>>
    /\ files' = <<>>
    /\ resp' = NoResp
    /\ IF v = "s1" /\ ~raw_dir.exists
       THEN /\ result' = "RuntimeError"
            /\ pc' = "done"
            /\ db' = db
       ELSE /\ result' = ""
            /\ pc' = "load"
            /\ db' = Rmtree(db)
    /\ UNCHANGED <<bucket, raw_dir, others>>

\* s1 lines 99-152 / s4 lines 100-191: read every file, build the two row
\* lists and the two DataFrames, then sqlite3.connect creates the db file
PrepareLoad ==
    /\ pc = "load"
    /\ LET acc == IF variant = "s4" THEN S4Files(NoRows, bucket, 1)
                  ELSE S1Files(NoRows, raw_dir.files, 1)
           raises == IF acc.err # "" THEN acc.err
                     ELSE IF variant = "s1" /\ S1FrameRaises(acc.aircraft_rows) THEN "KeyError"
                     ELSE ""
       IN  /\ files' = IF variant = "s4" THEN bucket ELSE raw_dir.files
           /\ aircraft_rows' = acc.aircraft_rows
           /\ position_rows' = acc.position_rows
           /\ IF raises # ""
              THEN /\ result' = raises
                   /\ pc' = "done"
                   /\ UNCHANGED <<aircraft_df, positions_df, db>>
              ELSE /\ aircraft_df' = IF variant = "s4" THEN S4AircraftFrame(acc.aircraft_rows)
                                     ELSE S1AircraftFrame(acc.aircraft_rows)
                   /\ positions_df' = acc.position_rows
                   /\ db' = Connect(db)
                   /\ pc' = "write_aircraft"
                   /\ UNCHANGED result
    /\ resp' = NoResp
    /\ UNCHANGED <<bucket, raw_dir, variant, before, others>>

\* s1 line 153 / s4 line 192: aircraft_df.to_sql("aircraft", if_exists="replace")
WriteAircraft ==
    /\ pc = "write_aircraft"
    /\ db' = [db EXCEPT !.has_aircraft = TRUE, !.aircraft = ToSql(aircraft_df)]
    /\ pc' = "write_positions"
    /\ resp' = NoResp
    /\ UNCHANGED <<bucket, raw_dir, variant, aircraft_rows, position_rows,
                   aircraft_df, positions_df, result, files, before, others>>

\* s1 lines 154-158 / s4 lines 193-197: positions_df.to_sql("positions",
\* if_exists="replace"), close, return "OK"
WritePositions ==
    /\ pc = "write_positions"
    /\ db' = [db EXCEPT !.has_positions = TRUE, !.positions = ToSql(positions_df)]
    /\ pc' = "done"
    /\ result' = "OK"
    /\ resp' = NoResp
    /\ UNCHANGED <<bucket, raw_dir, variant, aircraft_rows, position_rows,
                   aircraft_df, positions_df, files, before, others>>

\* ------------------------------------------------------------------------
\* The s1 query endpoints
\* ------------------------------------------------------------------------
Response(op, args, status, store, body) ==
    [op |-> op, args |-> args, status |-> status, store |-> store, body |-> body]
\* the statement a request ran on the database: its LIMIT and OFFSET
NoStatement == [ran |-> FALSE, limit |-> 0, offset |-> 0]
Statement(limit, offset) == [ran |-> TRUE, limit |-> limit, offset |-> offset]

MapSeq(s, Op(_)) == [i \in 1..Len(s) |-> Op(s[i])]

\* "if not os.path.exists(db_file)" (s1 lines 172, 203, 244)
\* (faulty variant: the file is opened without the check)
DbFileExistsUnchecked(d) == TRUE
DbFileExists(d) == d.file

\* s1 lines 162-187
AircraftDict(r) == [icao |-> r.icao, registration |-> r.registration, type |-> r.type]
ListAircraftResponse(d, num_results, page) ==
    LET args == [num_results |-> num_results, page |-> page]
        start == page * num_results
    IN  IF ~DbFileExists(d) THEN Response("list_aircraft", args, "ok", NoStatement, <<>>)
        ELSE IF ~d.has_aircraft
             THEN Response("list_aircraft", args, "OperationalError", Statement(num_results, start), <<>>)
        ELSE Response("list_aircraft", args, "ok", Statement(num_results, start),
                      MapSeq(LimitOffset(OrderBy(d.aircraft, "icao"), num_results, start), AircraftDict))

\* s1 lines 192-229
PositionDict(r) ==
    [timestamp |-> r.timestamp, lat |-> r.lat, lon |-> r.lon,
     alt_baro |-> r.alt_baro, gs |-> r.gs, emergency |-> Truthy(r.emergency)]
PositionsResponse(d, icao, num_results, page) ==
    LET args == [icao |-> icao, num_results |-> num_results, page |-> page]
        start == page * num_results
    IN  IF ~DbFileExists(d) THEN Response("get_aircraft_position", args, "ok", NoStatement, <<>>)
        ELSE IF ~d.has_positions
             THEN Response("get_aircraft_position", args, "OperationalError", Statement(num_results, start), <<>>)
        ELSE Response("get_aircraft_position", args, "ok", Statement(num_results, start),
                      MapSeq(LimitOffset(OrderBy(WhereIcao(d.positions, icao), "timestamp"),
                                         num_results, start), PositionDict))

\* s1 lines 235-267
NoStats == [max_altitude_baro |-> Null, max_ground_speed |-> Null, had_emergency |-> FALSE]
\* MAX(CASE WHEN emergency THEN 1 ELSE 0 END): NULL over no rows
EmergencyFlag(r) == IF SqlTruth(r.emergency) THEN Num(1) ELSE Num(0)
StatsResponse(d, icao) ==
    LET args == [icao |-> icao]
        rows == WhereIcao(d.positions, icao)
        column(c) == [i \in 1..Len(rows) |-> rows[i][c]]
    IN  IF ~DbFileExists(d) THEN Response("get_aircraft_statistics", args, "ok", NoStatement, NoStats)
        ELSE IF ~d.has_positions
             THEN Response("get_aircraft_statistics", args, "OperationalError", Statement(0, 0), NoStats)
        ELSE Response("get_aircraft_statistics", args, "ok", Statement(0, 0),
                      [max_altitude_baro |-> SqlMax(column("alt_baro"), Null),
                       max_ground_speed |-> SqlMax(column("gs"), Null),
                       had_emergency |-> Truthy(SqlMax(MapSeq(rows, EmergencyFlag), Null))])

\* request parameters
\* (a request is answered once the previous response has been delivered:
\* resp = NoResp; the answer depends on db alone, so this leaves out no
\* request against any reachable database)
QueryIcaos == {Txt(T_a), Txt(T_b)}
PageRequests == {<<1, 0>>, <<1, 1>>, <<2, 0>>, <<-1, 0>>, <<1, -1>>}   \* <<num_results, page>>
\* <<icao, num_results, page>>: every page request for one icao, one for the other
PositionRequests == {<<Txt(T_a), q[1], q[2]>> : q \in PageRequests} \cup {<<Txt(T_b), 2, 0>>}

list_aircraft(num_results, page) ==
    /\ resp = NoResp
    /\ resp' = ListAircraftResponse(db, num_results, page)
    /\ UNCHANGED <<bucket, raw_dir, db, pc, variant, aircraft_rows, position_rows,
                   aircraft_df, positions_df, result, files, before, others>>

get_aircraft_position(icao, num_results, page) ==
    /\ resp = NoResp
    /\ resp' = PositionsResponse(db, icao, num_results, page)
    /\ UNCHANGED <<bucket, raw_dir, db, pc, variant, aircraft_rows, position_rows,
                   aircraft_df, positions_df, result, files, before, others>>

get_aircraft_statistics(icao) ==
    /\ resp = NoResp
    /\ resp' = StatsResponse(db, icao)
    /\ UNCHANGED <<bucket, raw_dir, db, pc, variant, aircraft_rows, position_rows,
                   aircraft_df, positions_df, result, files, before, others>>

Next ==
    \/ \E v \in {"s1", "s4"} : PrepareStart(v) /\ UNCHANGED before
    \/ PrepareLoad
    \/ WriteAircraft
    \/ WritePositions
    \/ \E q \in PageRequests : list_aircraft(q[1], q[2])
    \/ \E q \in PositionRequests : get_aircraft_position(q[1], q[2], q[3])
    \/ \E i \in QueryIcaos : get_aircraft_statistics(i)

Spec == Init /\ [][Next]_vars

\* ------------------------------------------------------------------------
\* download_data (s4 and s1), one request of the loop per step
\* ------------------------------------------------------------------------
Hours == 24     \* range(24): one file name per hour of the day

\* the file the source serves for an hour: one aircraft at a position of
\* its own, the two icaos taking turns
SourceFile(hour) ==
    File(hour, "json.gz", "gzip",
         Snapshot(Num(10 + hour),
                  <<Entry(IF hour % 2 = 0 THEN Txt(T_a) ELSE Txt(T_b),
                          Txt(T_reg1), Txt(T_type1), Num(40 + hour), Num(2),
                          Num(1), Num(100 * hour), Num(180), Null)>>))

\* s3.put_object / open(path, "wb"): the object of that name is replaced,
\* listings are in name order
PutObject(objs, f) ==
    SelectSeq(objs, LAMBDA o : o.hour < f.hour) \o <<f>>
        \o SelectSeq(objs, LAMBDA o : o.hour > f.hour)
WriteFile(fs, f) == PutObject(fs, f)

\* "if count >= file_limit: break" (s4 lines 50-51)
\* (faulty variant: the loop stops one file late)
LimitReachedLate(count, file_limit) == count > file_limit
LimitReached(count, file_limit) == count >= file_limit

DownloadAtRest == dl.op = "none" \/ dl.result # ""
PrepareAtRest == pc \in {"idle", "done"}

\* s4 lines 29-47: a request arrives, nothing is cleaned
S4DownloadStart(file_limit) ==
    /\ DownloadAtRest /\ PrepareAtRest
    /\ dl' = [op |-> "s4", hour |-> 0, count |-> 0, file_limit |-> file_limit,
              puts |-> <<>>, result |-> ""]
    /\ UNCHANGED <<bucket, raw_dir, db, pc, variant, aircraft_rows, position_rows,
                   aircraft_df, positions_df, result, resp, files, before,
                   source, collection>>

\* s4 lines 48-69: one turn of "for filename in filenames", or the return
S4DownloadStep ==
    /\ dl.op = "s4" /\ dl.result = ""
    /\ IF dl.hour = Hours \/ LimitReached(dl.count, dl.file_limit)
       THEN /\ dl' = [dl EXCEPT !.result = "OK"]
            /\ UNCHANGED bucket
       ELSE IF dl.hour \in source
       THEN /\ bucket' = PutObject(bucket, SourceFile(dl.hour))
            /\ dl' = [dl EXCEPT !.hour = @ + 1, !.count = @ + 1,
                                !.puts = Append(@, dl.hour)]
       ELSE /\ dl' = [dl EXCEPT !.hour = @ + 1]
            /\ UNCHANGED bucket
    /\ UNCHANGED <<raw_dir, db, pc, variant, aircraft_rows, position_rows,
                   aircraft_df, positions_df, result, resp, files, before,
                   source, collection>>

\* s1 lines 30-56: the raw folder is removed and created again; file_limit
\* is not read
S1DownloadStart(file_limit) ==
    /\ DownloadAtRest /\ PrepareAtRest
    /\ raw_dir' = [exists |-> TRUE, files |-> <<>>]
    /\ dl' = [op |-> "s1", hour |-> 0, count |-> 0, file_limit |-> file_limit,
              puts |-> <<>>, result |-> ""]
    /\ UNCHANGED <<bucket, db, pc, variant, aircraft_rows, position_rows,
                   aircraft_df, positions_df, result, resp, files, before,
                   source, collection>>

\* s1 lines 58-68: one turn of "for filename in filenames", or the return
S1DownloadStep ==
    /\ dl.op = "s1" /\ dl.result = ""
    /\ IF dl.hour = Hours
       THEN /\ dl' = [dl EXCEPT !.result = "OK"]
            /\ UNCHANGED raw_dir
       ELSE IF dl.hour \in source
       THEN /\ raw_dir' = [raw_dir EXCEPT !.files = WriteFile(@, SourceFile(dl.hour))]
            /\ dl' = [dl EXCEPT !.hour = @ + 1, !.puts = Append(@, dl.hour)]
       ELSE /\ dl' = [dl EXCEPT !.hour = @ + 1]
            /\ UNCHANGED raw_dir
    /\ UNCHANGED <<bucket, db, pc, variant, aircraft_rows, position_rows,
                   aircraft_df, positions_df, result, resp, files, before,
                   source, collection>>

\* the hours the source serves: any of the first two and the last hour of
\* the day, or every hour (the source of TestS4.test_download)
Sources == (SUBSET {0, 1, Hours - 1}) \cup {0..(Hours - 1)}
FileLimits == {0, 1, 2, 100}

\* downloads followed by prepare_data runs, one request after the other,
\* starting with an empty bucket and no raw folder
InitIngest ==
    /\ bucket = <<>>
    /\ raw_dir = [exists |-> FALSE, files |-> <<>>]
    /\ source \in Sources
    /\ Fresh
    /\ pc = "idle"
    /\ variant = ""
    /\ aircraft_rows = <<>>
    /\ position_rows = <<>>
    /\ aircraft_df = <<>>
    /\ positions_df = <<>>
    /\ result = ""
    /\ resp = NoResp

NextIngest ==
    \/ \E k \in FileLimits : S4DownloadStart(k)
    \/ S4DownloadStep
    \/ \E k \in FileLimits : S1DownloadStart(k)
    \/ S1DownloadStep
    \/ \E v \in {"s1", "s4"} : DownloadAtRest /\ PrepareStart(v) /\ before' = db
    \/ PrepareLoad
    \/ WriteAircraft
    \/ WritePositions

SpecIngest == InitIngest /\ [][NextIngest]_vars

\* ------------------------------------------------------------------------
\* prepare_data on malformed files and entries, with a store that may fail
\* ------------------------------------------------------------------------
\* aircraft_df.to_sql raises (sqlite3.OperationalError: the database is
\* locked by a reader, the disk is full): nothing catches it, the db file
\* that connect created stays, without tables
WriteAircraftFails ==
    /\ pc = "write_aircraft"
    /\ pc' = "done"
    /\ result' = "OperationalError"
    /\ resp' = NoResp
    /\ UNCHANGED <<bucket, raw_dir, db, variant, aircraft_rows, position_rows,
                   aircraft_df, positions_df, files, before, others>>

\* positions_df.to_sql raises: the aircraft table is already committed
WritePositionsFails ==
    /\ pc = "write_positions"
    /\ pc' = "done"
    /\ result' = "OperationalError"
    /\ resp' = NoResp
    /\ UNCHANGED <<bucket, raw_dir, db, variant, aircraft_rows, position_rows,
                   aircraft_df, positions_df, files, before, others>>

\* entries with a field of an unexpected type: a textual seen_pos, and a
\* textual gs with a numeric emergency
EntryTextSeenPos == Entry(Txt(T_a), Txt(T_reg1), Txt(T_type1), Num(41), Num(2), Txt(T_na), Num(3200), Num(180), Null)
EntryTextGs == Entry(Txt(T_b), Txt(T_reg2), Txt(T_type2), Num(40), Num(3), Num(2), Num(100), Txt(T_na), Num(1))

\* files under a *.json.gz name: bytes that are neither gzip nor JSON, an
\* "aircraft" field that is null or a text, and snapshots of one entry
FaultFiles(hour) ==
    {File(hour, "json.gz", "garbage", NoAircraftKey(Missing)),
     File(hour, "json.gz", "gzip", NotAList(Num(10), Null)),
     File(hour, "json.gz", "gzip", NotAList(Num(10), Txt(T_na))),
     File(hour, "json.gz", "gzip", NoAircraftKey(Num(10)))}
    \cup {File(hour, "json.gz", "gzip", Snapshot(Num(10 + hour), <<e>>))
            : e \in {EntryA, EntryB, EntryTextSeenPos, EntryTextGs}}

RECURSIVE FaultListings(_, _)
FaultListings(hour, nfiles) ==
    {<<>>} \cup
    (IF nfiles = 0 THEN {}
     ELSE {<<f>> \o rest : f \in FaultFiles(hour),
                           rest \in FaultListings(hour + 1, nfiles - 1)})

FaultUniverse == FaultListings(0, MaxFiles)

InitFaults ==
    /\ \E c \in FaultUniverse : bucket = c /\ raw_dir = [exists |-> TRUE, files |-> c]
    /\ source = {}
    /\ Fresh
    /\ pc = "idle"
    /\ variant = ""
    /\ aircraft_rows = <<>>
    /\ position_rows = <<>>
    /\ aircraft_df = <<>>
    /\ positions_df = <<>>
    /\ result = ""
    /\ resp = NoResp

NextFaults ==
    \/ \E v \in {"s1", "s4"} : PrepareStart(v) /\ before' = db
    \/ PrepareLoad
    \/ WriteAircraft
    \/ WriteAircraftFails
    \/ WritePositions
    \/ WritePositionsFails

SpecFaults == InitFaults /\ [][NextFaults]_vars

\* ------------------------------------------------------------------------
\* s6: the document store (MongoDB collection "positions")
\* ------------------------------------------------------------------------
MaxDocs == 3    \* documents the collection holds at most

\* timestamps are strings (AircraftPosition.timestamp: str)
T_ts10 == <<49, 48>>    \* "10"
T_ts9 == <<57>>         \* "9"

\* a document: of the fields of AircraftPosition the two the handlers look
\* at, and lat standing for the others
Document(icao, timestamp, lat) == [icao |-> icao, timestamp |-> timestamp, lat |-> lat]
NoDocument == Document(<<>>, <<>>, 0)
Positions == {Document(i, t, lat) : i \in {T_a, T_b}, t \in {T_ts10, T_ts9}, lat \in {40, 41}}

\* find({"icao": icao}): the matching documents in collection order
Find(docs, icao) == SelectSeq(docs, LAMBDA d : d.icao = icao)

\* sort=[("timestamp", DESCENDING)] on strings: document i comes first when
\* no document has a greater timestamp in binary string order
\* (faulty variant: the sort is ascending)
SortsFirstAscending(docs, i) ==
    \A j \in 1..Len(docs) : ~TextLess(docs[j].timestamp, docs[i].timestamp)
SortsFirst(docs, i) ==
    \A j \in 1..Len(docs) : ~TextLess(docs[i].timestamp, docs[j].timestamp)

\* s6 lines 40-46: insert_one(position.model_dump())
create_aircraft(position) ==
    /\ Len(collection) < MaxDocs
    /\ collection' = Append(collection, position)
    /\ resp' = Response("create_aircraft", [icao |-> position.icao], "ok",
                        NoStatement, [status |-> "ok"])
    /\ UNCHANGED <<bucket, raw_dir, db, pc, variant, aircraft_rows, position_rows,
                   aircraft_df, positions_df, result, files, before, source, dl>>

\* s6 lines 87-96: find_one with the sort, 404 when there is no document;
\* among documents of equal greatest timestamp the store returns any
get_aircraft(icao) ==
    /\ LET found == Find(collection, icao)
       IN  IF Len(found) = 0
           THEN resp' = Response("get_aircraft", [icao |-> icao], "404",
                                 NoStatement, NoDocument)
           ELSE \E i \in 1..Len(found) :
                    /\ SortsFirst(found, i)
                    /\ resp' = Response("get_aircraft", [icao |-> icao], "ok",
                                        NoStatement, found[i])
    /\ UNCHANGED <<bucket, raw_dir, db, pc, variant, aircraft_rows, position_rows,
                   aircraft_df, positions_df, result, files, before, source, dl,
                   collection>>

\* s6 lines 99-104: delete_many({"icao": icao}), deleted_count
delete_aircraft(icao) ==
    /\ collection' = SelectSeq(collection, LAMBDA d : d.icao # icao)
    /\ resp' = Response("delete_aircraft", [icao |-> icao], "ok", NoStatement,
                        [deleted |-> Len(Find(collection, icao))])
    /\ UNCHANGED <<bucket, raw_dir, db, pc, variant, aircraft_rows, position_rows,
                   aircraft_df, positions_df, result, files, before, source, dl>>

InitS6 ==
    /\ bucket = <<>>
    /\ raw_dir = [exists |-> FALSE, files |-> <<>>]
    /\ source = {}
    /\ Fresh
    /\ pc = "idle"
    /\ variant = ""
    /\ aircraft_rows = <<>>
    /\ position_rows = <<>>
    /\ aircraft_df = <<>>
    /\ positions_df = <<>>
    /\ result = ""
    /\ resp = NoResp

NextS6 ==
    \/ \E p \in Positions : create_aircraft(p)
    \/ \E i \in {T_a, T_b} : get_aircraft(i)
    \/ \E i \in {T_a, T_b} : delete_aircraft(i)

SpecS6 == InitS6 /\ [][NextS6]_vars

\* ------------------------------------------------------------------------
\* Properties
\* ------------------------------------------------------------------------
\* what a finished run read, stated on the raw inputs: the files of the
\* listing that the variant opens and that hold an "aircraft" list, and
\* their entries in order, each with the "now" of its file
Listing == files
FileRead(f) ==
    /\ IF variant = "s4" THEN f.ext = "json.gz" ELSE f.ext \in {"json", "json.gz"}
    /\ f.data.has_aircraft
RECURSIVE EntriesOf(_)
EntriesOf(fs) ==
    IF Len(fs) = 0 THEN <<>>
    ELSE (IF FileRead(Head(fs))
          THEN [i \in 1..Len(Head(fs).data.aircraft) |->
                    [ac |-> Head(fs).data.aircraft[i], now |-> Head(fs).data.now]]
          ELSE <<>>) \o EntriesOf(Tail(fs))
EntriesRead == EntriesOf(Listing)

Present(x) == x.k \notin {"missing", "null"}
HasIdentifier(e) == e.ac.hex.k = "text" /\ e.ac.hex.v # <<>>
HasPosition(e) == Present(e.ac.lat) /\ Present(e.ac.lon)
Qualifies(e) == HasIdentifier(e) /\ HasPosition(e)
\* the entries that yield a position row, in processing order
Qualifying == SelectSeq(EntriesRead, Qualifies)
\* the entries that yield a metadata record, in processing order
Identified == SelectSeq(EntriesRead, HasIdentifier)

RunOK == pc = "done" /\ result = "OK"
\* the row lists are complete: the file loop ended without an exception
Loaded == pc \in {"write_aircraft", "write_positions"} \/ RunOK

\* C1: in s4 prepare_data the stored timestamp of every position row is
\* base_time - seen_pos when "now" and "seen_pos" are both present, and
\* base_time (null when "now" is missing) otherwise, for every value of the
\* two, base_time = 0 and seen_pos = 0 included.
ClaimedTimestamp(e) ==
    IF Present(e.ac.seen_pos) /\ Present(e.now) THEN Num(e.now.v - e.ac.seen_pos.v)
    ELSE IF Present(e.now) THEN e.now
    ELSE Null
C1_TimestampIsBaseMinusOffset ==
    (RunOK /\ variant = "s4" /\ Len(db.positions) = Len(Qualifying)) =>
        \A i \in 1..Len(Qualifying) :
            db.positions[i].timestamp = ClaimedTimestamp(Qualifying[i])

\* C2: in s4 prepare_data the stored alt_baro of every position row is the
\* entry's value when it is a number, 0 when it is the text "ground", and
\* null for any other text and for a missing or null alt_baro.
ClaimedAltBaro(e) ==
    IF e.ac.alt_baro.k = "num" THEN e.ac.alt_baro
    ELSE IF e.ac.alt_baro.k = "text" /\ e.ac.alt_baro.v = T_ground THEN Num(0)
    ELSE Null
C2_AltBaroNormalised ==
    (RunOK /\ variant = "s4") =>
        LET q == Qualifying
        IN  /\ Len(db.positions) = Len(q)
            /\ \A i \in 1..Len(q) : db.positions[i].alt_baro = ClaimedAltBaro(q[i])
\* a finished s4 run stored one row from a "ground" entry and one from an
\* entry with another altitude text
C2_Witness ==
    /\ RunOK /\ variant = "s4"
    /\ \E i, j \in 1..Len(Qualifying) :
        /\ Qualifying[i].ac.alt_baro = Txt(T_ground)
        /\ db.positions[i].alt_baro = Num(0)
        /\ Qualifying[j].ac.alt_baro = Txt(T_na)
        /\ db.positions[j].alt_baro = Null

\* C3: after a prepare_data run (s1 or s4) returns "OK" the positions table
\* holds exactly one row per entry read that has a usable identifier and
\* lat and lon both present and non-null, in processing order, none for
\* any other entry, nothing is deduplicated, and every stored row has
\* non-null lat and lon.
C3_OneRowPerQualifyingEntry ==
    RunOK =>
        LET q == Qualifying
        IN  /\ db.has_positions
            /\ Len(db.positions) = Len(q)
            /\ \A i \in 1..Len(q) :
                /\ db.positions[i].icao = q[i].ac.hex
                /\ db.positions[i].lat = q[i].ac.lat
                /\ db.positions[i].lon = q[i].ac.lon
            /\ \A i \in 1..Len(db.positions) :
                ~IsNull(db.positions[i].lat) /\ ~IsNull(db.positions[i].lon)
\* a finished run read the same qualifying entry twice and stored two
\* identical rows
C3_Witness ==
    /\ RunOK
    /\ Len(Qualifying) = 2
    /\ Qualifying[1] = Qualifying[2]
    /\ Len(db.positions) = 2
    /\ db.positions[1] = db.positions[2]

\* C4: an entry whose "hex" is missing, null or empty contributes neither
\* a metadata record nor a position row, even when it carries lat and lon;
\* an entry with a non-empty identifier always contributes a metadata
\* record, with registration and type null when they are missing, whether
\* or not it has a position.
ClaimedMetadata(e) ==
    [icao |-> e.ac.hex,
     registration |-> IF Present(e.ac.r) THEN e.ac.r ELSE Null,
     type |-> IF Present(e.ac.t) THEN e.ac.t ELSE Null]
C4_IdentifierDecidesContribution ==
    Loaded =>
        LET ids == Identified
        IN  /\ Len(aircraft_rows) = Len(ids)
            /\ \A i \in 1..Len(ids) : aircraft_rows[i] = ClaimedMetadata(ids[i])
            /\ Len(position_rows) = Len(Qualifying)
            /\ \A i \in 1..Len(position_rows) :
                \E j \in 1..Len(ids) : position_rows[i].icao = ids[j].ac.hex
\* the file loop read an entry with an empty identifier that carries a
\* position, and an identified entry without registration and without
\* position fields, which gave a metadata record with a null registration
C4_Witness ==
    /\ Loaded
    /\ \E i \in 1..Len(EntriesRead) :
        /\ EntriesRead[i].ac.hex = Txt(T_empty)
        /\ HasPosition(EntriesRead[i])
    /\ \E j \in 1..Len(Identified) :
        /\ Identified[j].ac.r = Missing
        /\ ~HasPosition(Identified[j])
        /\ aircraft_rows[j].registration = Null
    /\ Len(position_rows) = 0

\* C5: after any prepare_data run the aircraft table holds at most one
\* record per icao, and that record is entirely the one of the entry
\* processed last with that icao: registration and type are those of that
\* entry, null where that entry has none.
LastOfItsIcao(ids, k) == \A j \in (k + 1)..Len(ids) : ids[j].ac.hex # ids[k].ac.hex
C5_LastEntryWins ==
    /\ db.has_aircraft =>
        \A i, j \in 1..Len(db.aircraft) : db.aircraft[i].icao = db.aircraft[j].icao => i = j
    /\ RunOK =>
        LET ids == Identified
        IN  /\ \A k \in 1..Len(ids) :
                LastOfItsIcao(ids, k) =>
                    \E i \in 1..Len(db.aircraft) : db.aircraft[i] = ClaimedMetadata(ids[k])
            /\ \A i \in 1..Len(db.aircraft) :
                \E k \in 1..Len(ids) :
                    LastOfItsIcao(ids, k) /\ db.aircraft[i] = ClaimedMetadata(ids[k])
\* a finished run read two entries of one icao, the first with a
\* registration and the last without, and stored the null registration
C5_Witness ==
    /\ RunOK
    /\ \E k, m \in 1..Len(Identified) :
        /\ k < m
        /\ Identified[k].ac.hex = Identified[m].ac.hex
        /\ Present(Identified[k].ac.r)
        /\ ~Present(Identified[m].ac.r)
    /\ Len(db.aircraft) = 1
    /\ db.aircraft[1].registration = Null

\* ------------------------------------------------------------------------
\* Properties of the query endpoints, stated on the answer resp
\* ------------------------------------------------------------------------
\* the stored positions of the icao a request names
StoredOf(icao) == {i \in 1..Len(db.positions) : db.positions[i].icao = icao}
Answered(op) == resp.op = op /\ resp.status = "ok" /\ resp.store.ran

\* C6: get_aircraft_statistics reports had_emergency = true if and only if
\* at least one stored position of the icao has a non-null emergency
\* indicator, whatever its content ("none", "on", ...).
C6_HadEmergencyIffIndicatorPresent ==
    Answered("get_aircraft_statistics") =>
        (resp.body.had_emergency = TRUE
            <=> \E i \in StoredOf(resp.args.icao) : ~IsNull(db.positions[i].emergency))

\* C7: get_aircraft_statistics returns as max_altitude_baro the largest
\* non-null alt_baro of the icao's stored positions and as max_ground_speed
\* the largest non-null gs, each null when there is none, and each result is
\* a number or null.
IsLargest(x, vals) ==
    /\ x.k \in {"num", "null"}
    /\ IF vals = {} THEN x = Null
       ELSE x \in vals /\ \A y \in vals : y.k = "num" /\ y.v <= x.v
C7_MaximaAreNumericMaxima ==
    Answered("get_aircraft_statistics") =>
        LET mine == StoredOf(resp.args.icao)
        IN  /\ IsLargest(resp.body.max_altitude_baro,
                         {db.positions[i].alt_baro : i \in mine} \ {Null})
            /\ IsLargest(resp.body.max_ground_speed,
                         {db.positions[i].gs : i \in mine} \ {Null})

\* C8: the query endpoints never fail for "no data yet" or "unknown
\* identifier": before any prepare_data run and after a run that produced
\* no record, list_aircraft and get_aircraft_position return [] and
\* get_aircraft_statistics returns null, null, false; for an icao without
\* stored positions in a populated store get_aircraft_position returns []
\* and get_aircraft_statistics the same null, null, false.
NoRunYet == pc = "idle"
RunWithoutRecords ==
    /\ pc = "done" /\ result \in {"OK", "KeyError"}
    /\ Len(Identified) = 0
Populated == RunOK /\ Len(db.aircraft) > 0
AllNullStats(b) ==
    /\ b.max_altitude_baro = Null
    /\ b.max_ground_speed = Null
    /\ b.had_emergency = FALSE
C8_NoDataIsNotAnError ==
    /\ (resp.op # "none" /\ (NoRunYet \/ RunWithoutRecords)) =>
        /\ resp.status = "ok"
        /\ resp.op \in {"list_aircraft", "get_aircraft_position"} => resp.body = <<>>
        /\ resp.op = "get_aircraft_statistics" => AllNullStats(resp.body)
    /\ (resp.op \in {"get_aircraft_position", "get_aircraft_statistics"}
            /\ Populated /\ StoredOf(resp.args.icao) = {}) =>
        /\ resp.status = "ok"
        /\ resp.op = "get_aircraft_position" => resp.body = <<>>
        /\ resp.op = "get_aircraft_statistics" => AllNullStats(resp.body)
\* statistics were asked of the empty tables a finished s4 run left after
\* reading a snapshot without usable entries
C8_Witness ==
    /\ RunWithoutRecords
    /\ variant = "s4"
    /\ db.has_positions
    /\ Len(EntriesRead) > 0
    /\ resp.op = "get_aircraft_statistics"
    /\ resp.store.ran

\* C9: for page >= 0 and num_results > 0, get_aircraft_position returns the
\* elements [page*num_results, page*num_results + num_results) of the
\* icao's positions ordered by timestamp ascending, ties in arrival order,
\* and list_aircraft the same slice of all aircraft ordered by icao
\* ascending; consecutive pages are disjoint and their concatenation is the
\* whole ordered sequence.
\* timestamp order: null first, then numbers by value
TsBefore(x, y) == (x.k = "null" /\ y.k = "num") \/ (x.k = "num" /\ y.k = "num" /\ x.v < y.v)
\* lexicographic order of two texts
TextBefore(s, t) ==
    \E n \in 1..Len(t) :
        /\ \A m \in 1..(n - 1) : m <= Len(s) /\ s[m] = t[m]
        /\ (n > Len(s) \/ (n - 1 < Len(s) /\ s[n] < t[n]))
\* the indices of S as the one sequence ascending by Before, equal keys by index
Ordered(S, Before(_, _)) ==
    CHOOSE f \in [1..Cardinality(S) -> S] :
        \A a, b \in 1..Cardinality(S) :
            a < b => (Before(f[a], f[b]) \/ (~Before(f[b], f[a]) /\ f[a] < f[b]))
PositionsInOrder(icao) ==
    LET f == Ordered(StoredOf(icao),
                     LAMBDA i, j : TsBefore(db.positions[i].timestamp, db.positions[j].timestamp))
    IN  [a \in 1..Cardinality(StoredOf(icao)) |-> PositionDict(db.positions[f[a]])]
AircraftInOrder ==
    LET f == Ordered(1..Len(db.aircraft),
                     LAMBDA i, j : TextBefore(db.aircraft[i].icao.v, db.aircraft[j].icao.v))
    IN  [a \in 1..Len(db.aircraft) |-> AircraftDict(db.aircraft[f[a]])]
PageOf(full, num_results, page) ==
    SubSeq(full, page * num_results + 1, Min(page * num_results + num_results, Len(full)))
RECURSIVE Pages(_, _, _)
Pages(Answer(_), page, last) ==
    IF page > last THEN <<>> ELSE Answer(page) \o Pages(Answer, page + 1, last)
C9_PagesAreSlicesOfTheOrderedSequence ==
    /\ (Answered("get_aircraft_position") /\ resp.args.page >= 0 /\ resp.args.num_results > 0) =>
        resp.body = PageOf(PositionsInOrder(resp.args.icao), resp.args.num_results, resp.args.page)
    /\ (Answered("list_aircraft") /\ resp.args.page >= 0 /\ resp.args.num_results > 0) =>
        resp.body = PageOf(AircraftInOrder, resp.args.num_results, resp.args.page)
    /\ (resp = NoResp /\ db.has_aircraft /\ db.has_positions) =>
        \A n \in 1..2 :
            /\ Pages(LAMBDA p : ListAircraftResponse(db, n, p).body, 0, Len(db.aircraft))
                   = AircraftInOrder
            /\ \A icao \in QueryIcaos :
                Pages(LAMBDA p : PositionsResponse(db, icao, n, p).body, 0, Len(db.positions))
                    = PositionsInOrder(icao)
\* the second page of size 1 was asked of an icao whose two positions
\* arrived with the later timestamp first
C9_Witness ==
    /\ Answered("get_aircraft_position")
    /\ resp.args.num_results = 1 /\ resp.args.page = 1
    /\ Len(resp.body) = 1
    /\ \E i, j \in StoredOf(resp.args.icao) :
        /\ i < j
        /\ TsBefore(db.positions[j].timestamp, db.positions[i].timestamp)
        /\ resp.body[1] = PositionDict(db.positions[i])

\* C10: a list_aircraft or get_aircraft_position request whose page or
\* num_results is negative is rejected and never reaches the database, so
\* no statement runs with a negative LIMIT or OFFSET.
C10_NegativePagingRejected ==
    /\ (resp.op \in {"list_aircraft", "get_aircraft_position"}
            /\ (resp.args.page < 0 \/ resp.args.num_results < 0)) =>
        (resp.status = "rejected" /\ ~resp.store.ran)
    /\ (resp.op \in {"list_aircraft", "get_aircraft_position"} /\ resp.store.ran) =>
        (resp.store.limit >= 0 /\ resp.store.offset >= 0)

\* ------------------------------------------------------------------------
\* Properties of runs that follow each other and of download_data
\* ------------------------------------------------------------------------
\* the store a run derives from a listing, whatever the store held before
DerivedStore(v, fs) ==
    LET acc == IF v = "s4" THEN S4Files(NoRows, fs, 1) ELSE S1Files(NoRows, fs, 1)
    IN  [file |-> TRUE,
         has_aircraft |-> TRUE,
         aircraft |-> ToSql(DropDuplicatesKeepLast(acc.aircraft_rows)),
         has_positions |-> TRUE,
         positions |-> ToSql(acc.position_rows)]
\* a stored position comes from an entry of the listing
FromListing(row) ==
    \E i \in 1..Len(EntriesRead) :
        /\ EntriesRead[i].ac.hex = row.icao
        /\ EntriesRead[i].ac.lat = row.lat
        /\ EntriesRead[i].ac.lon = row.lon

\* C11: after a prepare_data run returned "OK" the store holds exactly the
\* data derived from the files that run read, whatever an earlier run
\* stored: every row comes from an entry of those files, no row of an
\* earlier run is left or repeated, and the store is a function of the
\* variant and the files alone, so that a second run on identical files
\* leaves identical tables; a run that failed after cleaning the prepared
\* folder leaves no table of an earlier run either.
C11_StoreHoldsOnlyTheLastRun ==
    /\ RunOK =>
        /\ db = DerivedStore(variant, files)
        /\ Len(db.positions) = Len(Qualifying)
        /\ \A i \in 1..Len(db.positions) : FromListing(db.positions[i])
        /\ \A i \in 1..Len(db.aircraft) :
            \E k \in 1..Len(Identified) : Identified[k].ac.hex = db.aircraft[i].icao
    /\ (pc = "done" /\ result \notin {"OK", "RuntimeError"}) => db = NoFile
\* a run returned "OK" on a store that held positions of an earlier run,
\* one of them from a file the new run did not read, and the new tables
\* differ from the earlier ones
C11_Witness ==
    /\ RunOK
    /\ Len(db.positions) > 0
    /\ Len(before.positions) > 0
    /\ \E i \in 1..Len(before.positions) : ~FromListing(before.positions[i])
    /\ before # db

\* ------------------------------------------------------------------------
\* Properties of prepare_data on malformed input and on a failing store
\* ------------------------------------------------------------------------
\* no entry read carries a seen_pos that is a text
SeenPosAsExpected ==
    \A i \in 1..Len(EntriesRead) : EntriesRead[i].ac.seen_pos.k # "text"
\* the run got past the folder check and the store took every write
StoreTookWrites == pc = "done" /\ result \notin {"RuntimeError", "OperationalError"}

\* C12: a file whose bytes are neither gzip nor JSON, or whose "aircraft"
\* field is missing or no list, contributes no record and does not stop the
\* run: the run returns "OK" and the store holds the records of the other
\* files (stated for runs that read at least one identified entry with
\* fields of the expected types).
C12_MalformedFileIsSkipped ==
    (StoreTookWrites /\ SeenPosAsExpected /\ Len(Identified) > 0) =>
        /\ result = "OK"
        /\ Len(db.positions) = Len(Qualifying)
        /\ \A i \in 1..Len(db.positions) : db.positions[i].icao = Qualifying[i].ac.hex
        /\ \A k \in 1..Len(Identified) :
            \E i \in 1..Len(db.aircraft) : db.aircraft[i].icao = Identified[k].ac.hex

\* the hours that answer 200, in ascending order
Available == SelectSeq([i \in 1..Hours |-> i - 1], LAMBDA h : h \in source)

\* C13: s4 download_data requests the hourly files in ascending hour order
\* and uploads, one put per file, exactly the available ones among those it
\* requested: at its return the first min(file_limit, number of available
\* hours) available files; an hour that answers non-200 is skipped, does
\* not count towards file_limit, and the endpoint returns "OK".
C13_UploadsFirstAvailableFiles ==
    /\ dl.op = "s4" =>
        /\ dl.hour <= Hours
        /\ dl.puts = SelectSeq(Available, LAMBDA h : h < dl.hour)
        /\ Len(dl.puts) = dl.count
        /\ \A i \in 1..Len(dl.puts) :
            \E j \in 1..Len(bucket) : bucket[j] = SourceFile(dl.puts[i])
        /\ dl.result \in {"", "OK"}
    /\ (dl.op = "s4" /\ dl.result = "OK") =>
        dl.puts = SubSeq(Available, 1, Min(dl.file_limit, Len(Available)))
\* a call with file_limit = 1 returned after the first hour answered
\* non-200 and two later hours were available: one upload, of hour 1
C13_Witness ==
    /\ dl.op = "s4" /\ dl.result = "OK"
    /\ dl.file_limit = 1
    /\ 0 \notin source
    /\ Cardinality(source) = 2
    /\ dl.puts = <<1>>
    /\ Len(bucket) = 1

\* C14: s1 download_data downloads the file_limit files: after a call with
\* file_limit = k the raw folder holds at most k files, the first k
\* available hourly files in ascending hour order, and no file left over
\* from an earlier download.
C14_RawFolderHoldsFileLimitFiles ==
    (dl.op = "s1" /\ dl.result = "OK") =>
        /\ raw_dir.exists
        /\ Len(raw_dir.files) <= dl.file_limit
        /\ raw_dir.files
             = [i \in 1..Min(dl.file_limit, Len(Available)) |-> SourceFile(Available[i])]

\* ------------------------------------------------------------------------
\* Properties of queries that arrive while prepare_data runs
\* ------------------------------------------------------------------------
InRun == pc \in {"load", "write_aircraft", "write_positions"}
\* what the request of an answer returns on the store d
AnswerOn(d, r) ==
    CASE r.op = "list_aircraft" ->
            ListAircraftResponse(d, r.args.num_results, r.args.page).body
      [] r.op = "get_aircraft_position" ->
            PositionsResponse(d, r.args.icao, r.args.num_results, r.args.page).body
      [] OTHER -> StatsResponse(d, r.args.icao).body
EmptyAnswer(r) ==
    IF r.op = "get_aircraft_statistics" THEN AllNullStats(r.body) ELSE r.body = <<>>

\* C15: a query answered at any step of a running prepare_data never fails
\* with an error and returns an empty or default result or the result over
\* the new run's data; once prepare_data has returned "OK" every answer is
\* the one over the new run's data. (prepare_data removes the earlier db
\* file in its first step, so an answer over the earlier data is an answer
\* given before the run.)
C15_QueriesDuringPrepareNeverFail ==
    resp.op # "none" =>
        /\ resp.status = "ok"
        /\ InRun => (EmptyAnswer(resp)
                        \/ resp.body = AnswerOn(DerivedStore(variant, files), resp))
        /\ RunOK => resp.body = AnswerOn(DerivedStore(variant, files), resp)

\* ------------------------------------------------------------------------
\* Properties of the document store
\* ------------------------------------------------------------------------
\* the stored documents of an icao
DocsOf(icao) == {i \in 1..Len(collection) : collection[i].icao = icao}

\* C16: after any sequence of create_aircraft and delete_aircraft calls,
\* get_aircraft(icao) answers 404 if and only if no document of that icao
\* is stored and otherwise returns a stored document of that icao such that
\* none has a greater timestamp (timestamps are strings, compared as
\* strings); delete_aircraft(icao) removes every document of that icao,
\* leaves the others as they are and in order, and returns the number
\* removed; create_aircraft adds its document and nothing else.
C16_GetAndDeleteFollowTheCollection ==
    /\ [](resp.op = "get_aircraft" =>
            /\ resp.status = "404" <=> DocsOf(resp.args.icao) = {}
            /\ resp.status # "404" =>
                /\ resp.status = "ok"
                /\ \E i \in DocsOf(resp.args.icao) : collection[i] = resp.body
                /\ \A j \in DocsOf(resp.args.icao) :
                    ~TextBefore(resp.body.timestamp, collection[j].timestamp))
    /\ [][/\ resp'.op = "delete_aircraft" =>
                /\ \A i \in 1..Len(collection') : collection'[i].icao # resp'.args.icao
                /\ collection' = SelectSeq(collection, LAMBDA d : d.icao # resp'.args.icao)
                /\ resp'.body.deleted = Cardinality(DocsOf(resp'.args.icao))
          /\ resp'.op = "create_aircraft" =>
                /\ Len(collection') = Len(collection) + 1
                /\ SubSeq(collection', 1, Len(collection)) = collection
                /\ collection'[Len(collection')].icao = resp'.args.icao]_vars
\* get_aircraft returned the document with timestamp "9" of an icao that
\* also holds a document with timestamp "10", inserted later
C16_Witness ==
    /\ resp.op = "get_aircraft" /\ resp.status = "ok"
    /\ resp.body.timestamp = T_ts9
    /\ Cardinality(DocsOf(resp.args.icao)) = 2
    /\ Len(collection) = 2
    /\ collection[1] = resp.body
    /\ collection[2].timestamp = T_ts10

\* every file of the listing decodes and holds a list under "aircraft", or
\* no such key
WellFormedListing ==
    \A i \in 1..Len(files) : Decodes(files[i]) /\ files[i].data.not_list = Missing

\* C17: no malformed field aborts an entry or the run: an s4 run over
\* well-formed files returns "OK" and stores the metadata record and the
\* position row of every entry, with a seen_pos that is no number giving
\* the timestamp base_time and a gs that is no number stored as null.
C17_MalformedFieldDegradesToNull ==
    (pc = "done" /\ variant = "s4" /\ result # "OperationalError" /\ WellFormedListing) =>
        /\ result = "OK"
        /\ Len(db.aircraft) > 0 <=> Len(Identified) > 0
        /\ Len(db.positions) = Len(Qualifying)
        /\ \A i \in 1..Len(db.positions) :
            /\ Qualifying[i].ac.seen_pos.k = "text" =>
                   db.positions[i].timestamp = Qualifying[i].now
            /\ Qualifying[i].ac.gs.k = "text" => db.positions[i].gs = Null

\* C18: a prepare_data run that fails surfaces the failure and commits no
\* part of the new data set: after a run that raised, the store holds
\* neither table of that run, so never the aircraft table without the
\* positions table nor a part of the rows.
C18_FailedRunCommitsNothing ==
    (pc = "done" /\ result \notin {"OK", "RuntimeError"}) =>
        /\ ~db.has_aircraft
        /\ ~db.has_positions

\* ------------------------------------------------------------------------
\* The two prepare_data variants against each other
\* ------------------------------------------------------------------------
OtherVariant == IF variant = "s1" THEN "s4" ELSE "s1"

\* C19: the s1 and s4 prepare_data variants produce identical aircraft and
\* positions tables from the same files: the tables a run stored are those
\* the other variant derives from the files it read, and every position
\* row has the timestamp base_time - seen_pos and the normalised alt_baro
\* ("ground" stored as 0).
C19_VariantsProduceTheSameTables ==
    RunOK =>
        /\ db.aircraft = DerivedStore(OtherVariant, files).aircraft
        /\ db.positions = DerivedStore(OtherVariant, files).positions
        /\ Len(db.positions) = Len(Qualifying)
        /\ \A i \in 1..Len(db.positions) :
            /\ (Present(Qualifying[i].now) /\ Present(Qualifying[i].ac.seen_pos)) =>
                   db.positions[i].timestamp
                       = Num(Qualifying[i].now.v - Qualifying[i].ac.seen_pos.v)
            /\ Qualifying[i].ac.alt_baro = Txt(T_ground) => db.positions[i].alt_baro = Num(0)

====
